---- MODULE Spec2Model ----
(***************************************************************************)
(* Model of the VeraCrypt volume reader in src/src/lib.rs:                 *)
(*   UnmountedVolume::mount, MountedVolume::{read, write, seek}.           *)
(*                                                                         *)
(* Conventions                                                             *)
(*  - A byte of a buffer is a pair <<addr, tweak>>: the backing-store      *)
(*    address the ciphertext byte was read from and the XTS data-unit      *)
(*    index it was decrypted with.  NoByte is a byte the code never wrote. *)
(*  - A u64 whose value is >= 2^63 is written as its two's complement      *)
(*    (negative) integer, i.e. v stands for 2^64 + v when v < 0.           *)
(*  - The external crates (pbkdf2, xts_mode, crc, binrw, fatfs) are        *)
(*    modelled by what the calls in lib.rs observe of them.                *)
(***************************************************************************)
EXTENDS Integers, Sequences, FiniteSets, TLC

VARIABLES
    image,       \* the backing store D: its length, its header, its faults
    status,      \* "unmounted" | "mounted" | "failed" | "panicked"
    err,         \* the Error returned by mount, or "none"
    header_buf,  \* mount's local `header` ([u8; 512]) after decrypt_area
    header,      \* MountedVolume.header (the parsed VolumeHeader)
    pos,         \* stream position of the backing store
    last,        \* the last call on the mounted volume and what it returned
    prev,        \* summary of the call before `last`
    wr,          \* the most recent write(buf) call: where, and the buffer
    nops         \* number of calls made on the mounted volume

vars == <<image, status, err, header_buf, header, pos, last, prev, wr, nops>>

-----------------------------------------------------------------------------
(* Program constants *)

DATA_UNIT_SIZE == 512

HEADER_SIZE == 512

(* Bound on the number of read/write/seek calls explored after mount *)
MaxOps == 4

-----------------------------------------------------------------------------
(* Small helpers *)

Min(a, b) == IF a < b THEN a ELSE b

Max(a, b) == IF a > b THEN a ELSE b

NoByte == <<-1, -1>>

None == [op |-> "none"]

-----------------------------------------------------------------------------
(* The header as it was written into the volume (plaintext view).          *)

\* CRC.checksum over a header region; the region is given by the values of
\* the fields that lie in it.  Any change of one field changes the result.
Checksum(region) ==
    LET RECURSIVE Acc(_)
        Acc(i) == IF i = 0 THEN 7 ELSE (Acc(i - 1) * 31 + region[i]) % 65521
    IN  Acc(Len(region))

MagicCode(m) == IF m = "VERA" THEN 1 ELSE 0

\* bytes [256,512): the master keys (the reserved remainder is constant)
KeyRegion(h) == <<h.master_keys>>

\* bytes [64,252): magic, version, master_key_crc, sizes, offsets, sector size
FieldRegion(h) ==
    <<MagicCode(h.magic), h.version, h.master_key_crc, h.volume_size,
      h.master_key_scope_offset, h.master_key_scope_size, h.sector_size>>

\* A header as a VeraCrypt formatter writes it: both CRC fields are consistent.
MakeHeader(off, size, ss) ==
    LET h0 == [magic |-> "VERA", version |-> 5, master_key_crc |-> 0,
               volume_size |-> size, master_key_scope_offset |-> off,
               master_key_scope_size |-> size, sector_size |-> ss,
               header_checksum |-> 0, master_keys |-> 77]
        h1 == [h0 EXCEPT !.master_key_crc = Checksum(KeyRegion(h0))]
    IN  [h1 EXCEPT !.header_checksum = Checksum(FieldRegion(h1))]

-----------------------------------------------------------------------------
(* The backing stores the model opens.                                     *)

GoodPassword == "password1234"

Passwords == {GoodPassword, "wrong"}

\* The reference container: header sector, one more sector before the data
\* area, then a data area of four 512-byte sectors holding a FAT filesystem.
RefImage ==
    [len   |-> 3072,      \* length of the backing store in bytes
     fault |-> "none",    \* the backing call that fails with an I/O error
     flips |-> {},        \* header blocks with a flipped ciphertext bit
     hdr   |-> MakeHeader(1024, 2048, 512),
     fat   |-> TRUE]      \* the data area starts with a valid FAT boot sector

FileLens == {100, 2048, 3072}

Faults == {"none", "rewind", "read_exact", "seek"}

\* 16-byte XTS blocks of the header that a test may corrupt: [64,80) holds
\* magic, versions and master_key_crc; [96,112) holds volume_size (offset
\* 100); [240,256) holds header_checksum; [288,304) holds master keys
\* (offset 300).
FlipBlocks == {"magic", "fields", "checksum", "keys"}

SectorSizes == {0, 256, 512}

ScopeSizes == {2000, 2048}

Images ==
    {[RefImage EXCEPT !.len = l] : l \in FileLens}
    \cup {[RefImage EXCEPT !.fault = f] : f \in Faults}
    \cup {[RefImage EXCEPT !.flips = fl] : fl \in SUBSET FlipBlocks}
    \cup {[RefImage EXCEPT !.hdr = MakeHeader(1024, sz, ss)] :
             sz \in ScopeSizes, ss \in SectorSizes}
    \cup {[RefImage EXCEPT !.fat = b] : b \in BOOLEAN}

-----------------------------------------------------------------------------
(* UnmountedVolume::mount, step by step                                    *)

\* What a wrong key or a flipped ciphertext bit leaves of a field.
Garble(v) == v + 1

\* lib.rs 57-71: derive the key from (password, salt) and decrypt bytes
\* [64,512) in place.  With the password the header was written under, every
\* intact block decrypts to its plaintext; a block with a flipped ciphertext
\* bit, and every block under another key, decrypts to garbage.
DecryptHeader(img, password) ==
    LET h == img.hdr
        bad(b) == password # GoodPassword \/ b \in img.flips
    IN  [magic          |-> IF bad("magic") THEN "????" ELSE h.magic,
         version        |-> IF bad("magic") THEN Garble(h.version) ELSE h.version,
         master_key_crc |-> IF bad("magic") THEN Garble(h.master_key_crc)
                                            ELSE h.master_key_crc,
         volume_size    |-> IF bad("fields") THEN Garble(h.volume_size)
                                             ELSE h.volume_size,
         master_key_scope_offset |->
             IF password # GoodPassword THEN Garble(h.master_key_scope_offset)
                                        ELSE h.master_key_scope_offset,
         master_key_scope_size |->
             IF password # GoodPassword THEN Garble(h.master_key_scope_size)
                                        ELSE h.master_key_scope_size,
         sector_size    |-> IF password # GoodPassword THEN Garble(h.sector_size)
                                                       ELSE h.sector_size,
         header_checksum |-> IF bad("checksum") THEN Garble(h.header_checksum)
                                                ELSE h.header_checksum,
         master_keys    |-> IF bad("keys") THEN Garble(h.master_keys)
                                           ELSE h.master_keys]

\* ValidateHeader without the comparison of the CRC of [64,252)
ValidateHeader_NoHeaderCrc(buf) ==
    IF buf.magic # "VERA" THEN "InvalidKey"
    ELSE IF buf.master_key_crc # Checksum(KeyRegion(buf)) THEN "InvalidKey"
    ELSE "ok"

\* lib.rs 73-86: magic, then CRC of [256,512), then CRC of [64,252).
ValidateHeader(buf) ==
    IF buf.magic # "VERA" THEN "InvalidKey"
    ELSE IF buf.master_key_crc # Checksum(KeyRegion(buf)) THEN "InvalidKey"
    ELSE IF buf.header_checksum # Checksum(FieldRegion(buf)) THEN "InvalidKey"
    ELSE "ok"

\* lib.rs 89-90 with the BinRead derive of VolumeHeader (212-231): the only
\* failing directive on 512 readable bytes is the magic b"VERA".
ParseHeader(buf) ==
    IF buf.magic # "VERA"
    THEN [ok |-> FALSE]
    ELSE [ok |-> TRUE,
          value |-> [master_key_scope_offset |-> buf.master_key_scope_offset,
                     master_key_scope_size   |-> buf.master_key_scope_size,
                     sector_size             |-> buf.sector_size,
                     master_keys             |-> buf.master_keys]]

-----------------------------------------------------------------------------
(* The backing store D (a std::fs::File, as UnmountedVolume::open makes)   *)

\* read_exact of n bytes at position p of a store of length len: all n bytes
\* or UnexpectedEof, with the bytes up to the end of the store consumed.
ReadExact(p, n, len) ==
    IF p + n <= len
    THEN [ok |-> TRUE, pos |-> p + n]
    ELSE [ok |-> FALSE, pos |-> Max(p, len)]

\* File::seek(SeekFrom::Start(n)): any offset up to i64::MAX is accepted, also
\* past the end of the file; a u64 above i64::MAX is EINVAL.
SeekStart(n) ==
    IF n >= 0 THEN [ok |-> TRUE, pos |-> n] ELSE [ok |-> FALSE]

-----------------------------------------------------------------------------
(* MountedVolume::read                                                     *)

\* xts.decrypt_area(&mut temp_buffer, sector_size, first, get_tweak_default)
\* on the 512 bytes read from backing address addr0: chunk k \div sector_size
\* of the buffer is decrypted with tweak index first + k \div sector_size.
TempByte(addr0, sector_size, first, k) ==
    <<addr0 + k, first + (k \div sector_size)>>

\* decrypt_sector asserts that a trailing partial chunk holds a whole block
DecryptPanics(sector_size) ==
    (DATA_UNIT_SIZE % sector_size) \in 1..15

\* buf[d0 .. d0+n).copy_from_slice(&temp_buffer[s0 .. s0+n]), where the temp
\* buffer was read from backing address addr0.  A buffer is kept as the list
\* of the copies made into it, latest last.
CopyFromSlice(dst, d0, addr0, sector_size, first, s0, n) ==
    Append(dst, [src |-> "temp", d0 |-> d0, n |-> n, addr0 |-> addr0,
                 sector_size |-> sector_size, first |-> first, s0 |-> s0])

\* Byte j of a buffer: what the latest copy that covers j put there.
BufByte(buf, j) ==
    LET covering == {i \in 1..Len(buf) :
                        buf[i].d0 <= j /\ j < buf[i].d0 + buf[i].n}
    IN  IF covering = {} THEN NoByte
        ELSE LET run == buf[CHOOSE i \in covering : \A k \in covering : k <= i]
             IN  IF run.src = "caller" THEN <<-2, j>>
                 ELSE TempByte(run.addr0, run.sector_size, run.first,
                               run.s0 + (j - run.d0))

\* lib.rs 135-174: the loop over the data units, from iteration i on.
\* st = [pos, buf, bytes_written, tweaks, ret]; c holds the loop's constants.
RECURSIVE ReadLoop(_, _, _)
ReadLoop(i, st, c) ==
    IF i >= c.data_units_to_read
    THEN [st EXCEPT !.ret = "ok"]
    ELSE
      LET rx == ReadExact(st.pos, DATA_UNIT_SIZE, c.len)
      IN
      IF ~rx.ok
      THEN [st EXCEPT !.ret = "err", !.pos = rx.pos]
      ELSE IF c.sector_size = 0            \* current_pos / sector_size
      THEN [st EXCEPT !.ret = "panic", !.pos = rx.pos]
      ELSE IF DecryptPanics(c.sector_size)
      THEN [st EXCEPT !.ret = "panic", !.pos = rx.pos]
      ELSE
        LET first == c.current_pos \div c.sector_size
            s1 == [st EXCEPT !.pos = rx.pos, !.tweaks = Append(@, first)]
        IN
        IF i = 0
        THEN \* first data unit
          LET num == Min(DATA_UNIT_SIZE - c.read_offset, c.read_len)
          IN  ReadLoop(i + 1,
                [s1 EXCEPT
                   !.buf = CopyFromSlice(@, 0, st.pos, c.sector_size, first,
                                         c.read_offset, num),
                   !.bytes_written = @ + num], c)
        ELSE IF i = c.data_units_to_read - 1
        THEN \* last data unit
          LET num == c.total_bytes_to_read % DATA_UNIT_SIZE
          IN  IF num > c.read_len
              THEN [s1 EXCEPT !.ret = "panic"]
              ELSE ReadLoop(i + 1,
                [s1 EXCEPT
                   !.buf = CopyFromSlice(@, c.read_len - num, st.pos,
                                         c.sector_size, first, 0, num),
                   !.bytes_written = @ + num], c)
        ELSE \* middle data unit: bytes_written is not advanced
          IF st.bytes_written + DATA_UNIT_SIZE > c.read_len
          THEN [s1 EXCEPT !.ret = "panic"]
          ELSE ReadLoop(i + 1,
                [s1 EXCEPT
                   !.buf = CopyFromSlice(@, st.bytes_written, st.pos,
                                         c.sector_size, first, 0,
                                         DATA_UNIT_SIZE)], c)

\* lib.rs 115-177: read into a buffer of read_len bytes with the backing store
\* at current_pos.  Returns [ret, pos, buf, bytes_written, tweaks].
ReadVolume(current_pos, read_len, sector_size, len) ==
    LET base_offset == (current_pos \div DATA_UNIT_SIZE) * DATA_UNIT_SIZE
        total_bytes_to_read == current_pos + read_len - base_offset
        d == total_bytes_to_read \div DATA_UNIT_SIZE
        r == total_bytes_to_read % DATA_UNIT_SIZE
        data_units_to_read == IF r > 0 THEN d + 1 ELSE d
        read_offset == current_pos - base_offset
        c == [current_pos |-> current_pos, read_len |-> read_len,
              sector_size |-> sector_size, len |-> len,
              total_bytes_to_read |-> total_bytes_to_read,
              data_units_to_read |-> data_units_to_read,
              read_offset |-> read_offset]
        st0 == [pos |-> current_pos - read_offset,
                buf |-> <<>>,
                bytes_written |-> 0,
                tweaks |-> <<>>,
                ret |-> "ok"]
    IN  ReadLoop(0, st0, c)

-----------------------------------------------------------------------------
(* fatfs::FileSystem::new(buf_stream, ...).unwrap(), lib.rs 103-108: the   *)
(* FAT layer starts by reading the boot sector through BufStream, whose    *)
(* buffer is filled by one 512-byte read of the device, and accepts or     *)
(* rejects what it finds.  Later reads of the FAT layer are calls like any *)
(* other on the mounted volume.                                            *)
BOOT_SECTOR_SIZE == 512

FileSystemNew(img, hdr, p) ==
    LET rd == ReadVolume(p, BOOT_SECTOR_SIZE, hdr.sector_size, img.len)
    IN  IF rd.ret = "panic" THEN [ret |-> "panic", pos |-> rd.pos]
        ELSE IF rd.ret = "err" THEN [ret |-> "err", pos |-> rd.pos]
        ELSE IF ~img.fat THEN [ret |-> "err", pos |-> rd.pos]
        ELSE [ret |-> "ok", pos |-> rd.pos]

\* lib.rs 47-111.  Returns [status, err, header_buf, header, pos].
MountResult(img, password) ==
    LET fail(e, hb, p) == [status |-> "failed", err |-> e, header_buf |-> hb,
                          header |-> None, pos |-> p]
    IN
    IF img.fault = "rewind" THEN fail("InvalidVolume", None, 0)
    ELSE
    LET rx == ReadExact(0, HEADER_SIZE, img.len) IN
    IF img.fault = "read_exact" \/ ~rx.ok THEN fail("InvalidVolume", None, rx.pos)
    ELSE
    LET buf == DecryptHeader(img, password) IN
    IF ValidateHeader(buf) # "ok" THEN fail(ValidateHeader(buf), buf, rx.pos)
    ELSE
    LET parsed == ParseHeader(buf) IN
    IF ~parsed.ok THEN fail("InvalidHeader", buf, rx.pos)
    ELSE
    LET hdr == parsed.value
        sk == SeekStart(hdr.master_key_scope_offset)
    IN
    IF img.fault = "seek" \/ ~sk.ok THEN fail("InvalidVolume", buf, rx.pos)
    ELSE
    LET fs == FileSystemNew(img, hdr, sk.pos) IN
    IF fs.ret # "ok"             \* a panic in read, or unwrap() of an Err
    THEN [status |-> "panicked", err |-> "none", header_buf |-> buf,
          header |-> hdr, pos |-> fs.pos]
    ELSE [status |-> "mounted", err |-> "none", header_buf |-> buf,
          header |-> hdr, pos |-> fs.pos]

mount(password) ==
    /\ status = "unmounted"
    /\ LET m == MountResult(image, password)
       IN  /\ status' = m.status
           /\ err' = m.err
           /\ header_buf' = m.header_buf
           /\ header' = m.header
           /\ pos' = m.pos
    /\ UNCHANGED <<image, last, prev, wr, nops>>

-----------------------------------------------------------------------------
(* Calls on the mounted volume (made by the filesystem layer above it)     *)

ReadLens == {0, 24, 512, 1024, 1600}

WriteLens == {24, 512}

SeekArgs ==
    {<<"Start", n>> : n \in {0, 500, 512}}
    \cup {<<"End", n>> : n \in {0, 2100, 4096}}
    \cup {<<"Current", n>> : n \in {-1, 0, 512}}

\* What `prev` keeps of a call
Summary(l) ==
    IF l.op = "read" THEN [l EXCEPT !.buf = <<>>, !.tweaks = <<>>] ELSE l

\* io::Read::read(&mut self, buf) with buf.len() = read_len, lib.rs 115-177
read(read_len) ==
    /\ status = "mounted"
    /\ nops < MaxOps
    /\ LET rd == ReadVolume(pos, read_len, header.sector_size, image.len)
       IN  /\ pos' = rd.pos
           /\ status' = IF rd.ret = "panic" THEN "panicked" ELSE "mounted"
           /\ last' = [op |-> "read", start |-> pos, len |-> read_len,
                       ret |-> rd.ret, n |-> rd.bytes_written,
                       buf |-> rd.buf, tweaks |-> rd.tweaks]
    /\ prev' = Summary(last)
    /\ nops' = nops + 1
    /\ UNCHANGED <<image, err, header_buf, header, wr>>

\* The n bytes a caller hands to write: none of them is a byte of the volume.
CallerBuf(n) == <<[src |-> "caller", d0 |-> 0, n |-> n]>>

\* io::Write::write(&mut self, _buf), lib.rs 181-185: Ok(1), nothing else.
write(buf) ==
    /\ status = "mounted"
    /\ nops < MaxOps
    /\ last' = [op |-> "write", start |-> pos, len |-> buf[1].n,
                ret |-> "ok", n |-> 1]
    /\ wr' = [op |-> "write", start |-> pos, buf |-> buf, at |-> nops + 1,
              after |-> Summary(last)]
    /\ prev' = Summary(last)
    /\ nops' = nops + 1
    /\ UNCHANGED <<image, status, err, header_buf, header, pos>>

\* lib.rs 199-203: the backing position asked for.  `as i64` / `as u64` keep
\* the bit pattern, which is how a negative value is read here.
NewPos(whence, n, current_pos, data_start_pos, data_len) ==
    CASE whence = "Start"   -> data_start_pos + n
      [] whence = "End"     -> (data_start_pos + data_len) - n
      [] whence = "Current" -> current_pos + n

\* io::Seek::seek(&mut self, pos), lib.rs 193-209.  `pos - data_start_pos` is
\* a u64 subtraction: below zero it panics in a build with overflow checks
\* and wraps in a build without them.
seek(whence, n) ==
    /\ status = "mounted"
    /\ nops < MaxOps
    /\ LET current_pos == pos
           data_start_pos == header.master_key_scope_offset
           data_len == header.master_key_scope_size
           new_pos == NewPos(whence, n, current_pos, data_start_pos, data_len)
           sk == SeekStart(new_pos)
           call == [op |-> "seek", start |-> pos, whence |-> whence, arg |-> n]
       IN  IF ~sk.ok
           THEN /\ pos' = pos
                /\ status' = status
                /\ last' = call @@ [ret |-> "err", n |-> 0]
           ELSE IF sk.pos < data_start_pos
           THEN \E overflow_checks \in BOOLEAN :
                /\ pos' = sk.pos
                /\ status' = IF overflow_checks THEN "panicked" ELSE "mounted"
                /\ last' = call @@
                     [ret |-> IF overflow_checks THEN "panic" ELSE "ok",
                      n |-> sk.pos - data_start_pos]
           ELSE /\ pos' = sk.pos
                /\ status' = status
                /\ last' = call @@ [ret |-> "ok", n |-> sk.pos - data_start_pos]
    /\ prev' = Summary(last)
    /\ nops' = nops + 1
    /\ UNCHANGED <<image, err, header_buf, header, wr>>

-----------------------------------------------------------------------------

Init ==
    /\ image \in Images
    /\ status = "unmounted"
    /\ err = "none"
    /\ header_buf = None
    /\ header = None
    /\ pos = 0
    /\ last = None
    /\ prev = None
    /\ wr = None
    /\ nops = 0

Next ==
    \/ \E password \in Passwords : mount(password)
    \/ \E read_len \in ReadLens : read(read_len)
    \/ \E n \in WriteLens : write(CallerBuf(n))
    \/ \E a \in SeekArgs : seek(a[1], a[2])

Spec == Init /\ [][Next]_vars

-----------------------------------------------------------------------------
(* Vocabulary of the properties                                            *)

\* mount has returned (or panicked) and no call has been made since
MountDone == status # "unmounted" /\ last.op = "none"

\* The header invariants of spec section 3 for the mounted volume
WellFormed ==
    /\ header.sector_size = DATA_UNIT_SIZE
    /\ header.master_key_scope_size % header.sector_size = 0
    /\ header.master_key_scope_offset + header.master_key_scope_size
          <= image.len

\* [p, p+n) in backing addresses lies inside the data area
InArea(p, n) ==
    /\ header.master_key_scope_offset <= p
    /\ p + n <= header.master_key_scope_offset + header.master_key_scope_size

\* The last call is a read that returned Ok on a well-formed volume, for a
\* range inside the data area
GoodRead ==
    /\ last.op = "read"
    /\ last.ret = "ok"
    /\ WellFormed
    /\ InArea(last.start, last.len)

-----------------------------------------------------------------------------
(* C1: a successful read of L >= 1 bytes at backing position p_backing     *)
(* inside the data area fills buffer index j, for every j in [0, L), with  *)
(* the byte at offset (o + j) mod S of sector s0 + (o + j) div S, i.e. the *)
(* byte of backing address p_backing + j, for any number of sectors.       *)
C1_ReadFillsBuffer ==
    (GoodRead /\ last.len >= 1) =>
        \A j \in 0..(last.len - 1) :
            LET o  == last.start % DATA_UNIT_SIZE
                s0 == last.start \div DATA_UNIT_SIZE
            IN  BufByte(last.buf, j)[1] =
                    (s0 + ((o + j) \div DATA_UNIT_SIZE)) * DATA_UNIT_SIZE
                        + ((o + j) % DATA_UNIT_SIZE)

(* C2: a read inside the data area that does not return an I/O error       *)
(* returns exactly L, the length of the caller's buffer.                   *)
C2_ReadReturnsLen ==
    GoodRead => last.n = last.len

(* C3: once the 512 header bytes are read and decrypted, mount returns     *)
(* InvalidKey if and only if the magic differs from "VERA", or the CRC of  *)
(* [256,512) differs from the field at [72,76), or the CRC of [64,252)     *)
(* differs from the field at [252,256).                                    *)
C3_InvalidKeyIffCheckFails ==
    (status # "unmounted" /\ header_buf # None) =>
        ((err = "InvalidKey") <=>
            (\/ header_buf.magic # "VERA"
             \/ header_buf.master_key_crc # Checksum(KeyRegion(header_buf))
             \/ header_buf.header_checksum # Checksum(FieldRegion(header_buf))))

\* mount returned InvalidKey for a header whose magic and first CRC are right
\* and whose second CRC alone is wrong
C3_Witness ==
    /\ MountDone
    /\ err = "InvalidKey"
    /\ header_buf # None
    /\ header_buf.magic = "VERA"
    /\ header_buf.master_key_crc = Checksum(KeyRegion(header_buf))
    /\ header_buf.header_checksum # Checksum(FieldRegion(header_buf))

(* C4: every failing step of mount ends it with an Error value of the kind *)
(* of that step; mount never panics, and never yields a mounted volume     *)
(* after a failed step.                                                    *)
C4_MountReturnsError ==
    MountDone =>
        /\ status \in {"mounted", "failed"}
        /\ status = "failed" =>
              err \in {"InvalidVolume", "InvalidKey", "InvalidHeader"}
        /\ (image.len < HEADER_SIZE \/ image.fault \in {"rewind", "read_exact"})
              => (status = "failed" /\ err = "InvalidVolume")
        /\ status = "mounted" => (image.fault = "none" /\ image.fat)

(* C5: seek(Start(p)); write(buf); seek(Start(p)); read(L) with L the      *)
(* length of buf and [p, p+L) inside the data area returns exactly buf.    *)
C5_ReadAfterWrite ==
    (/\ last.op = "read"
     /\ prev.op = "seek" /\ prev.whence = "Start" /\ prev.ret = "ok"
     /\ wr.op = "write" /\ wr.at + 2 = nops
     /\ wr.after.op = "seek" /\ wr.after.whence = "Start"
     /\ wr.after.ret = "ok" /\ wr.after.arg = prev.arg
     /\ last.len = wr.buf[1].n
     /\ WellFormed
     /\ InArea(last.start, last.len))
    => /\ last.ret = "ok"
       /\ \A j \in 0..(last.len - 1) :
             BufByte(last.buf, j) = BufByte(wr.buf, j)

(* C6: seek moves the backing store to offset + n for Start(n), to         *)
(* offset + size - n for End(n), to current + n for Current(n), and        *)
(* returns the new backing position minus offset, a non-negative logical   *)
(* position (the unsigned subtraction never wraps).                        *)
C6_SeekReturnsLogical ==
    (last.op = "seek" /\ last.ret # "err" /\ WellFormed) =>
        /\ last.ret = "ok"
        /\ pos = NewPos(last.whence, last.arg, last.start,
                        header.master_key_scope_offset,
                        header.master_key_scope_size)
        /\ last.n = pos - header.master_key_scope_offset
        /\ last.n >= 0

(* C7: seek(Start(0)); skip(p); read(L), where skip(p) reads p bytes,      *)
(* delivers what seek(Start(p)); read(L) delivers: the read after a read   *)
(* of p bytes continues at the byte following the p bytes delivered.       *)
C7_SeekCommutes ==
    (/\ last.op = "read"
     /\ prev.op = "read" /\ prev.ret = "ok"
     /\ prev.start = header.master_key_scope_offset
     /\ WellFormed
     /\ InArea(prev.start, prev.len + last.len))
    => LET direct == ReadVolume(prev.start + prev.len, last.len,
                                header.sector_size, image.len)
       IN  /\ last.ret = direct.ret
           /\ last.n = direct.bytes_written
           /\ \A j \in 0..(last.len - 1) :
                 BufByte(last.buf, j) = BufByte(direct.buf, j)

(* C8: after a successful mount the header satisfies sector_size > 0,      *)
(* sector_size divides master_key_scope_size, and offset + size <= length  *)
(* of the backing store; a header violating one of these is rejected.      *)
C8_HeaderInvariants ==
    status = "mounted" =>
        /\ header.sector_size > 0
        /\ header.master_key_scope_size % header.sector_size = 0
        /\ header.master_key_scope_offset + header.master_key_scope_size
              <= image.len

(* C9: a read with an empty buffer returns 0 and leaves the backing        *)
(* position where it was, also when it is not on a sector boundary.        *)
C9_EmptyReadKeepsPosition ==
    (last.op = "read" /\ last.len = 0 /\ WellFormed
        /\ InArea(last.start, 0)) =>
        /\ last.ret = "ok"
        /\ last.n = 0
        /\ pos = last.start

(* C10: in one read starting at backing sector s0, the i-th sector read    *)
(* (i = 0..n-1) is decrypted with XTS tweak index s0 + i.                  *)
C10_TweakPerSector ==
    GoodRead =>
        \A i \in 1..Len(last.tweaks) :
            last.tweaks[i] = (last.start \div DATA_UNIT_SIZE) + (i - 1)

====
